---- MODULE Spec2Model ----
(***************************************************************************)
(* A model of src/clob_client_fixed.rs: ClobClient::ensure_trading_ready   *)
(* (balance, bytecode, allowance and approval reads, the approve and       *)
(* set_approval_for_all transactions of the plain-account branch) and      *)
(* ClobClient::submit_order (translation of maker/taker amounts to         *)
(* price/size strings, the POST to the executor and the reading of its     *)
(* response).  Every `.await` of the source is one step of a task.         *)
(***************************************************************************)
EXTENDS Integers, Sequences, FiniteSets, TLC

\* ------------------------------------------------------------------ bounds

\* Transactions left pending by calls that stopped waiting for them.
MaxOrphans == 1

\* Tasks that hold a clone of the client; the tasks of Solo make calls.
Tasks == {1, 2}
Solo == {1}

\* ---------------------------------------------------------- 256-bit values

\* A U256 is hi * 2^128 + lo.  TLC's integers are 32 bits wide, so a limb is
\* drawn from the values below LimbOnes, and LimbOnes stands for a limb with
\* every bit set; the order of the values is the order of the numbers.
LimbOnes == 2^30

\* U256::from(u128)
U256_from(x) == [hi |-> 0, lo |-> x]

\* U256::MAX, the amount ensure_usdc_allowance approves
U256_MAX == [hi |-> LimbOnes, lo |-> LimbOnes]

\* 2^128, the least value as_u128 cannot hold
TwoTo128 == [hi |-> 1, lo |-> 0]

\* a < b on U256
U256_lt(a, b) == a.hi < b.hi \/ (a.hi = b.hi /\ a.lo < b.lo)

\* U256::as_u128 returns the low limb and panics when the value needs more
\* than 128 bits.
as_u128_panics(v) == v.hi # 0

MIN_ALLOWANCE == 1000000

\* ------------------------------------------------------------- the chain

\* The signer's own account, another plain account, a contract wallet.
Addresses == {"signer", "eoa", "safe"}

\* get_code(a): the bytecode at address a
CodeAt(a) == IF a = "safe" THEN "0x6080" ELSE ""

\* code.0.is_empty(), the test without its negation
CodeIsEmpty(code) == code = ""

\* !code.0.is_empty()
HoldsCode(code) == code # ""

\* msg.sender of a transaction sent through SignerMiddleware
Sender == "signer"

Balances == {U256_from(999999), U256_from(1000000), TwoTo128}
Allowances == {U256_from(999999), U256_from(1000000)}
Requireds == {1000000, 1000001}

TxKinds == {"approve", "set_approval_for_all"}

VARIABLES
    proxy_wallet,   \* ClobClient.proxy_wallet
    read_only,      \* ClobClient.read_only
    log_info,       \* whether the log crate's info level is enabled
    balanceOf,      \* USDC balanceOf(proxy_wallet)
    allowance,      \* USDC allowance(a, exchange), a \in Addresses
    isApprovedForAll, \* CTF isApprovedForAll(a, exchange), a \in Addresses
    orphans,        \* pending transactions nobody waits for, by kind
    pc,             \* pc[t]: where task t stands
    required,       \* required_usdc of task t's ensure_trading_ready call
    locals,         \* the locals bal, allowance, approved of task t's call
    tx,             \* the transaction task t has sent and awaits
    trace,          \* the requests task t's current call has made, in order
    result,         \* what task t's last call returned
    prev,           \* the required amount of t's last remediating call, or -1
    reinvoke,       \* t's current call repeats that call on an unchanged chain
    undisturbed,    \* nobody else changed the chain since t's call began
    effect,         \* a transaction of t's current call changed the chain's state
    op,             \* the public operation task t's call is of
    order,          \* the order of task t's submit_order call
    request,        \* python_order, as built by that call
    response        \* resp: the status, and the body once it is read

vars == <<proxy_wallet, read_only, log_info, balanceOf, allowance,
          isApprovedForAll, orphans, pc, required, locals, tx, trace,
          result, prev, reinvoke, undisturbed, effect, op, order, request,
          response>>

config == <<proxy_wallet, read_only, log_info>>
chain == <<balanceOf, allowance, isApprovedForAll>>
ghost == <<prev, reinvoke, undisturbed, effect>>
ready_vars == <<required, locals, tx, ghost>>
submit_vars == <<op, order, request, response>>

NoValue == [hi |-> -1, lo |-> -1]
NoLocals == [bal |-> NoValue, allowance |-> NoValue, approved |-> FALSE,
             receipts |-> <<>>]

NoResult == [tag |-> "None"]
\* Ok(()): both public operations return Result<()>
Ok == [tag |-> "Ok", value |-> "()"]
\* Err(anyhow!(..)), by the place that made it; detail is what the message
\* is formatted from.
ErrOf(kind, detail) == [tag |-> "Err", kind |-> kind, detail |-> detail]
Err(kind) == ErrOf(kind, <<>>)
Panic == [tag |-> "Panic"]

NoOrder == [token_id |-> "", side |-> -1, maker_amount |-> NoValue,
            taker_amount |-> NoValue]
NoRequest == [token_id |-> "", side |-> "", price |-> "", size |-> "",
              order_type |-> ""]
NoBody == [json |-> FALSE, success |-> <<>>, order_id |-> <<>>, error |-> <<>>]
NoResponse == [status |-> 0, body |-> NoBody]

Init ==
    /\ proxy_wallet \in Addresses
    /\ read_only \in BOOLEAN
    /\ log_info \in BOOLEAN
    /\ balanceOf \in Balances
    /\ \E a \in Allowances :
          allowance = [x \in Addresses |-> IF x = proxy_wallet THEN a ELSE U256_from(0)]
    /\ \E b \in BOOLEAN :
          isApprovedForAll = [x \in Addresses |-> x = proxy_wallet /\ b]
    /\ orphans = [k \in TxKinds |-> 0]
    /\ pc = [t \in Tasks |-> "idle"]
    /\ required = [t \in Tasks |-> 0]
    /\ locals = [t \in Tasks |-> NoLocals]
    /\ tx = [t \in Tasks |-> "none"]
    /\ trace = [t \in Tasks |-> <<>>]
    /\ result = [t \in Tasks |-> NoResult]
    /\ prev = [t \in Tasks |-> -1]
    /\ reinvoke = [t \in Tasks |-> FALSE]
    /\ undisturbed = [t \in Tasks |-> FALSE]
    /\ effect = [t \in Tasks |-> FALSE]
    /\ op = [t \in Tasks |-> "none"]
    /\ order = [t \in Tasks |-> NoOrder]
    /\ request = [t \in Tasks |-> NoRequest]
    /\ response = [t \in Tasks |-> NoResponse]

\* --------------------------------------------------------------- helpers

Did(t, ev) == trace' = [trace EXCEPT ![t] = Append(@, ev)]

Goto(t, label) == pc' = [pc EXCEPT ![t] = label]

\* The chain's state changed, by a transaction of task `by` (0: of someone
\* else): what earlier calls established is no longer "the same chain state".
ChainChanged(by) ==
    /\ prev' = [t \in Tasks |-> -1]
    /\ reinvoke' = [t \in Tasks |-> FALSE]
    /\ undisturbed' = [t \in Tasks |-> undisturbed[t] /\ t = by]

\* The transactions of the current call of t, all confirmed with success.
Remediated(t, receipts) ==
    /\ receipts # <<>>
    /\ \A i \in 1..Len(receipts) : receipts[i] = "success"

\* A call of ensure_trading_ready returns r.
Return(t, r, receipts) ==
    /\ Goto(t, "done")
    /\ result' = [result EXCEPT ![t] = r]
    /\ prev' = [prev EXCEPT ![t] =
                   IF r = Ok /\ Remediated(t, receipts) /\ undisturbed[t]
                   THEN required[t]
                   ELSE -1]

\* A call aborts: the task unwinds and takes no further step.
Abort(t) ==
    /\ Goto(t, "panicked")
    /\ result' = [result EXCEPT ![t] = Panic]
    /\ prev' = [prev EXCEPT ![t] = -1]

\* ------------------------------------------------- ensure_trading_ready

ensure_trading_ready(t, required_usdc) ==
    /\ pc[t] = "idle"
    /\ required' = [required EXCEPT ![t] = required_usdc]
    /\ locals' = [locals EXCEPT ![t] = NoLocals]
    /\ trace' = [trace EXCEPT ![t] = <<>>]
    /\ result' = [result EXCEPT ![t] = NoResult]
    /\ reinvoke' = [reinvoke EXCEPT ![t] = prev[t] = required_usdc]
    /\ undisturbed' = [undisturbed EXCEPT ![t] = TRUE]
    /\ effect' = [effect EXCEPT ![t] = FALSE]
    /\ Goto(t, "ensure_balance")
    /\ op' = [op EXCEPT ![t] = "ensure_trading_ready"]
    /\ order' = [order EXCEPT ![t] = NoOrder]
    /\ request' = [request EXCEPT ![t] = NoRequest]
    /\ response' = [response EXCEPT ![t] = NoResponse]
    /\ UNCHANGED <<config, chain, orphans, tx, prev>>

\* bal <= U256::from(required), the test off by one
BalanceNotAbove(bal, req) == ~U256_lt(U256_from(req), bal)

\* bal < U256::from(required)
BalanceInsufficient(bal, req) == U256_lt(bal, U256_from(req))

ensure_balance(t) ==
    /\ pc[t] = "ensure_balance"
    /\ Did(t, "balance_of")
    /\ \E rpc_ok \in BOOLEAN :
          IF ~rpc_ok
          THEN /\ Return(t, Err("Rpc"), <<>>)
               /\ UNCHANGED locals
          ELSE /\ locals' = [locals EXCEPT ![t].bal = balanceOf]
               /\ IF BalanceInsufficient(balanceOf, required[t])
                  THEN Return(t, Err("InsufficientBalance"), <<>>)
                  ELSE IF log_info /\ as_u128_panics(balanceOf)
                  THEN Abort(t)
                  ELSE /\ Goto(t, "proxy_is_contract")
                       /\ UNCHANGED <<result, prev>>
    /\ UNCHANGED <<reinvoke, undisturbed, effect, submit_vars, config, chain, orphans, required, tx>>

proxy_is_contract(t) ==
    /\ pc[t] = "proxy_is_contract"
    /\ Did(t, "get_code")
    /\ \E rpc_ok \in BOOLEAN :
          IF ~rpc_ok
          THEN Return(t, Err("Rpc"), <<>>)
          ELSE /\ Goto(t, IF HoldsCode(CodeAt(proxy_wallet))
                          THEN "ensure_safe_checks"
                          ELSE "ensure_usdc_allowance")
               /\ UNCHANGED <<result, prev>>
    /\ UNCHANGED <<reinvoke, undisturbed, effect, submit_vars, config, chain, orphans, required, locals, tx>>

\* allowance < U256::MAX, the test against the amount that approve grants
AllowanceBelowMax(a) == U256_lt(a, U256_MAX)

\* allowance < U256::from(MIN_ALLOWANCE)
AllowanceMissing(a) == U256_lt(a, U256_from(MIN_ALLOWANCE))

\* The allowance read of ensure_safe_checks and its test.
ensure_safe_checks(t) ==
    /\ pc[t] = "ensure_safe_checks"
    /\ Did(t, "allowance")
    /\ \E rpc_ok \in BOOLEAN :
          IF ~rpc_ok
          THEN /\ Return(t, Err("Rpc"), <<>>)
               /\ UNCHANGED locals
          ELSE /\ locals' = [locals EXCEPT ![t].allowance = allowance[proxy_wallet]]
               /\ IF AllowanceMissing(allowance[proxy_wallet])
                  THEN Return(t, Err("AllowanceMissing"), <<>>)
                  ELSE /\ Goto(t, "safe_is_approved")
                       /\ UNCHANGED <<result, prev>>
    /\ UNCHANGED <<reinvoke, undisturbed, effect, submit_vars, config, chain, orphans, required, tx>>

\* The approval read of ensure_safe_checks and its test.
safe_is_approved(t) ==
    /\ pc[t] = "safe_is_approved"
    /\ Did(t, "is_approved_for_all")
    /\ \E rpc_ok \in BOOLEAN :
          IF ~rpc_ok
          THEN /\ Return(t, Err("Rpc"), <<>>)
               /\ UNCHANGED locals
          ELSE /\ locals' = [locals EXCEPT ![t].approved = isApprovedForAll[proxy_wallet]]
               /\ IF ~isApprovedForAll[proxy_wallet]
                  THEN Return(t, Err("ApprovalMissing"), <<>>)
                  ELSE Return(t, Ok, <<>>)
    /\ UNCHANGED <<reinvoke, undisturbed, effect, submit_vars, config, chain, orphans, required, tx>>

\* The allowance read of ensure_usdc_allowance and its test.
ensure_usdc_allowance(t) ==
    /\ pc[t] = "ensure_usdc_allowance"
    /\ Did(t, "allowance")
    /\ \E rpc_ok \in BOOLEAN :
          IF ~rpc_ok
          THEN /\ Return(t, Err("Rpc"), <<>>)
               /\ UNCHANGED locals
          ELSE /\ locals' = [locals EXCEPT ![t].allowance = allowance[proxy_wallet]]
               /\ Goto(t, IF ~AllowanceMissing(allowance[proxy_wallet])
                          THEN "ensure_erc1155_approval"
                          ELSE "approve_send")
               /\ UNCHANGED <<result, prev>>
    /\ UNCHANGED <<reinvoke, undisturbed, effect, submit_vars, config, chain, orphans, required, tx>>

\* self.usdc().approve(self.exchange(), U256::MAX).send().await?
approve_send(t) ==
    /\ pc[t] = "approve_send"
    /\ Did(t, "approve")
    /\ \E sent \in BOOLEAN :
          IF ~sent
          THEN /\ Return(t, Err("Rpc"), <<>>)
               /\ UNCHANGED tx
          ELSE /\ tx' = [tx EXCEPT ![t] = "pending"]
               /\ Goto(t, "approve_wait")
               /\ UNCHANGED <<result, prev>>
    /\ UNCHANGED <<reinvoke, undisturbed, effect, submit_vars, config, chain, orphans, required, locals>>

\* Awaiting the pending transaction of kind k, then going on at `next`
\* (or returning Ok when next is "done").  The await yields the receipt
\* when the transaction is mined (whatever its status) and None when it was
\* dropped; only a failure of the polling itself is an error.
AwaitReceipt(t, k, next) ==
    \/ /\ tx[t] \in {"success", "reverted", "dropped"}
       /\ locals' = [locals EXCEPT ![t].receipts = Append(@, tx[t])]
       /\ tx' = [tx EXCEPT ![t] = "none"]
       /\ trace' = [trace EXCEPT ![t] = Append(@, k \o ":" \o tx[t])]
       /\ IF next = "done"
          THEN Return(t, Ok, Append(locals[t].receipts, tx[t]))
          ELSE /\ Goto(t, next)
               /\ UNCHANGED <<result, prev>>
       /\ UNCHANGED orphans
    \/ /\ tx[t] = "pending" => orphans[k] < MaxOrphans
       /\ orphans' = IF tx[t] = "pending"
                     THEN [orphans EXCEPT ![k] = @ + 1]
                     ELSE orphans
       /\ tx' = [tx EXCEPT ![t] = "none"]
       /\ Return(t, Err("Rpc"), <<>>)
       /\ UNCHANGED <<locals, trace>>

\* ... .await? of the PendingTransaction of approve
approve_wait(t) ==
    /\ pc[t] = "approve_wait"
    /\ AwaitReceipt(t, "approve", "ensure_erc1155_approval")
    /\ UNCHANGED <<reinvoke, undisturbed, effect, submit_vars, config, chain, required>>

\* The approval read of ensure_erc1155_approval and its test.
ensure_erc1155_approval(t) ==
    /\ pc[t] = "ensure_erc1155_approval"
    /\ Did(t, "is_approved_for_all")
    /\ \E rpc_ok \in BOOLEAN :
          IF ~rpc_ok
          THEN /\ Return(t, Err("Rpc"), <<>>)
               /\ UNCHANGED locals
          ELSE /\ locals' = [locals EXCEPT ![t].approved = isApprovedForAll[proxy_wallet]]
               /\ IF isApprovedForAll[proxy_wallet]
                  THEN Return(t, Ok, locals[t].receipts)
                  ELSE /\ Goto(t, "set_approval_send")
                       /\ UNCHANGED <<result, prev>>
    /\ UNCHANGED <<reinvoke, undisturbed, effect, submit_vars, config, chain, orphans, required, tx>>

\* self.ctf().set_approval_for_all(self.exchange(), true).send().await?
set_approval_send(t) ==
    /\ pc[t] = "set_approval_send"
    /\ Did(t, "set_approval_for_all")
    /\ \E sent \in BOOLEAN :
          IF ~sent
          THEN /\ Return(t, Err("Rpc"), <<>>)
               /\ UNCHANGED tx
          ELSE /\ tx' = [tx EXCEPT ![t] = "pending"]
               /\ Goto(t, "set_approval_wait")
               /\ UNCHANGED <<result, prev>>
    /\ UNCHANGED <<reinvoke, undisturbed, effect, submit_vars, config, chain, orphans, required, locals>>

\* ... .await? of the PendingTransaction of set_approval_for_all
set_approval_wait(t) ==
    /\ pc[t] = "set_approval_wait"
    /\ AwaitReceipt(t, "set_approval_for_all", "done")
    /\ UNCHANGED <<reinvoke, undisturbed, effect, submit_vars, config, chain, required>>

\* The caller has the Result of the call and the call's frame is gone.
call_returns(t) ==
    /\ pc[t] = "done"
    /\ Goto(t, "idle")
    /\ op' = [op EXCEPT ![t] = "none"]
    /\ required' = [required EXCEPT ![t] = 0]
    /\ locals' = [locals EXCEPT ![t] = NoLocals]
    /\ trace' = [trace EXCEPT ![t] = <<>>]
    /\ result' = [result EXCEPT ![t] = NoResult]
    /\ reinvoke' = [reinvoke EXCEPT ![t] = FALSE]
    /\ undisturbed' = [undisturbed EXCEPT ![t] = FALSE]
    /\ effect' = [effect EXCEPT ![t] = FALSE]
    /\ order' = [order EXCEPT ![t] = NoOrder]
    /\ request' = [request EXCEPT ![t] = NoRequest]
    /\ response' = [response EXCEPT ![t] = NoResponse]
    /\ UNCHANGED <<config, chain, orphans, tx, prev>>

\* ------------------------------------------------------------ the chain

\* What the chain does when a transaction of kind k from Sender is executed.
Execute(k) ==
    /\ allowance' = IF k = "approve"
                    THEN [allowance EXCEPT ![Sender] = U256_MAX]
                    ELSE allowance
    /\ isApprovedForAll' = IF k = "set_approval_for_all"
                           THEN [isApprovedForAll EXCEPT ![Sender] = TRUE]
                           ELSE isApprovedForAll
    /\ UNCHANGED balanceOf

KindAwaited(t) == IF pc[t] = "approve_wait" THEN "approve" ELSE "set_approval_for_all"

\* Executing a transaction of kind k changes what the chain holds.
Changes(k) ==
    IF k = "approve"
    THEN allowance[Sender] # U256_MAX
    ELSE ~isApprovedForAll[Sender]

\* The pending transaction of task t is mined and succeeds.
TxMined(t) ==
    /\ tx[t] = "pending"
    /\ tx' = [tx EXCEPT ![t] = "success"]
    /\ Execute(KindAwaited(t))
    /\ ChainChanged(t)
    /\ effect' = [effect EXCEPT ![t] = @ \/ Changes(KindAwaited(t))]
    /\ UNCHANGED <<submit_vars, config, orphans, pc, required, locals, trace, result>>

\* It is mined and reverts, or leaves the mempool unmined.
TxFailed(t) ==
    /\ tx[t] = "pending"
    /\ \E how \in {"reverted", "dropped"} : tx' = [tx EXCEPT ![t] = how]
    /\ UNCHANGED <<submit_vars, config, chain, orphans, pc, required, locals, trace,
                   result, ghost>>

\* A pending transaction nobody waits for is mined, or leaves the mempool.
OrphanMined(k) ==
    /\ orphans[k] > 0
    /\ orphans' = [orphans EXCEPT ![k] = @ - 1]
    /\ \/ Execute(k) /\ ChainChanged(0) /\ UNCHANGED effect
       \/ UNCHANGED <<chain, ghost>>
    /\ UNCHANGED <<submit_vars, config, pc, required, locals, tx, trace, result>>

\* Transfers to and from the proxy wallet, by anyone.
Transfer(b) ==
    /\ b # balanceOf
    /\ balanceOf' = b
    /\ ChainChanged(0)
    /\ UNCHANGED <<effect, submit_vars, config, allowance, isApprovedForAll, orphans, pc, required,
                   locals, tx, trace, result>>

\* The owner of the proxy wallet approves out of band, or the exchange spends.
OwnerApproves(a) ==
    /\ a # allowance[proxy_wallet]
    /\ allowance' = [allowance EXCEPT ![proxy_wallet] = a]
    /\ ChainChanged(0)
    /\ UNCHANGED <<effect, submit_vars, config, balanceOf, isApprovedForAll, orphans, pc, required,
                   locals, tx, trace, result>>

OwnerSetsApproval(b) ==
    /\ b # isApprovedForAll[proxy_wallet]
    /\ isApprovedForAll' = [isApprovedForAll EXCEPT ![proxy_wallet] = b]
    /\ ChainChanged(0)
    /\ UNCHANGED <<effect, submit_vars, config, balanceOf, allowance, orphans, pc, required,
                   locals, tx, trace, result>>

\* ------------------------------------------------------------ submit_order

Sides == {0, 1}
Amounts == {U256_from(x) : x \in {0, 1, 128, 100000, 120000, 150000}} \cup {TwoTo128}
Orders == [token_id : {"0x01"}, side : Sides, maker_amount : Amounts,
           taker_amount : Amounts]

\* 1_000_000.0, the 6-decimal fixed-point factor
MICRO == 1000000

\* the precision of format!("{:.6}", ..)
PRECISION == 6

Digit == <<"0", "1", "2", "3", "4", "5", "6", "7", "8", "9">>

RECURSIVE Decimal(_)
\* n in decimal digits
Decimal(n) ==
    IF n < 10 THEN Digit[n + 1] ELSE Decimal(n \div 10) \o Digit[(n % 10) + 1]

RECURSIVE Padded(_, _)
\* n in exactly k decimal digits
Padded(n, k) ==
    IF k = 0 THEN "" ELSE Padded(n \div 10, k - 1) \o Digit[(n % 10) + 1]

\* format!("{:.6}", x) for x = whole + micro / 10^6
Fixed6(whole, micro) == Decimal(whole) \o "." \o Padded(micro, PRECISION)

RECURSIVE LongDivision(_, _, _, _)
\* k more decimal digits of r / d, for r < d, after the digits acc
LongDivision(r, d, k, acc) ==
    IF k = 0
    THEN [digits |-> acc, rem |-> r]
    ELSE LongDivision((r * 10) % d, d, k - 1, acc * 10 + ((r * 10) \div d))

\* n / d as format!("{:.6}", ..) can round it, as <<whole, micro>>: the
\* nearest multiple of 10^-6.  The f64 quotient of a value that lies exactly
\* half way between two multiples lies next to it on either side, and the
\* formatting then rounds to that side.
Rounded(n, d) ==
    LET q == LongDivision(n % d, d, PRECISION, 0)
        down == <<n \div d, q.digits>>
        up == IF q.digits + 1 = MICRO
              THEN <<(n \div d) + 1, 0>>
              ELSE <<n \div d, q.digits + 1>>
    IN  IF 2 * q.rem < d THEN {down}
        ELSE IF 2 * q.rem > d THEN {up}
        ELSE {down, up}

\* format!("{:.6}", (n as f64 / 1_000_000.0) / (d as f64 / 1_000_000.0)):
\* x / 0.0 is inf, 0.0 / 0.0 is NaN, and neither division panics.
PriceStrings(n, d) ==
    IF d = 0
    THEN IF n = 0 THEN {"NaN"} ELSE {"inf"}
    ELSE {Fixed6(x[1], x[2]) : x \in Rounded(n, d)}

\* format!("{:.6}", n as f64 / 1_000_000.0)
SizeString(n) == Fixed6(n \div MICRO, n % MICRO)

\* if order.side == 0 { "BUY" } else { "SELL" }
SideName(side) == IF side = 0 THEN "BUY" ELSE "SELL"

\* The maker amount whatever the side: the BUY formula used for SELL too.
DividendIsMaker(o) == o.maker_amount.lo

\* The dividend, the divisor and the size of the translation of order o.
Dividend(o) == IF o.side = 0 THEN o.maker_amount.lo ELSE o.taker_amount.lo
Divisor(o) == IF o.side = 0 THEN o.taker_amount.lo ELSE o.maker_amount.lo
SizeOf(o) == IF o.side = 0 THEN o.taker_amount.lo ELSE o.maker_amount.lo

\* python_order, for each way the price can be rounded
Requests(o) ==
    {[token_id |-> o.token_id,
      side |-> SideName(o.side),
      price |-> p,
      size |-> SizeString(SizeOf(o)),
      order_type |-> "FOK"] : p \in PriceStrings(Dividend(o), Divisor(o))}

\* One of the as_u128() calls on the order's amounts panics.
AmountsPanic(o) ==
    as_u128_panics(o.maker_amount) \/ as_u128_panics(o.taker_amount)

\* The read-only branch evaluates as_u128() only inside info!, that is, only
\* when the info level is enabled.
ReadOnlyPanics(o) == log_info /\ AmountsPanic(o)

\* submit_order returning r only if the proxy wallet's balance passes the
\* check of ensure_balance against the minimum.
SubmitReturnIfFunded(t, r) ==
    /\ Goto(t, "done")
    /\ result' = [result EXCEPT ![t] =
                     IF BalanceInsufficient(balanceOf, MIN_ALLOWANCE)
                     THEN Err("InsufficientBalance")
                     ELSE r]

SubmitReturn(t, r) ==
    /\ Goto(t, "done")
    /\ result' = [result EXCEPT ![t] = r]

SubmitAbort(t) ==
    /\ Goto(t, "panicked")
    /\ result' = [result EXCEPT ![t] = Panic]

\* submit_order up to its first await
submit_order(t, o) ==
    /\ pc[t] = "idle"
    /\ op' = [op EXCEPT ![t] = "submit_order"]
    /\ order' = [order EXCEPT ![t] = o]
    /\ response' = [response EXCEPT ![t] = NoResponse]
    /\ trace' = [trace EXCEPT ![t] = <<>>]
    /\ required' = [required EXCEPT ![t] = 0]
    /\ locals' = [locals EXCEPT ![t] = NoLocals]
    /\ reinvoke' = [reinvoke EXCEPT ![t] = FALSE]
    /\ undisturbed' = [undisturbed EXCEPT ![t] = FALSE]
    /\ effect' = [effect EXCEPT ![t] = FALSE]
    /\ IF read_only
       THEN /\ IF ReadOnlyPanics(o) THEN SubmitAbort(t) ELSE SubmitReturn(t, Ok)
            /\ request' = [request EXCEPT ![t] = NoRequest]
       ELSE IF AmountsPanic(o)
       THEN /\ SubmitAbort(t)
            /\ request' = [request EXCEPT ![t] = NoRequest]
       ELSE /\ \E r \in Requests(o) : request' = [request EXCEPT ![t] = r]
            /\ Goto(t, "http_send")
            /\ result' = [result EXCEPT ![t] = NoResult]
    /\ UNCHANGED <<config, chain, orphans, tx, prev>>

Statuses == {200, 299, 300, 500}

\* 200 <= status, the upper end of the 2xx range forgotten
AtLeast200(status) == 200 <= status

\* StatusCode::is_success
is_success(status) == 200 <= status /\ status < 300

\* Some(s) and None of Option<String>, Some(b) and None of a JSON flag
Some(x) == <<x>>
None == <<>>

\* What the executor may answer: a JSON object with or without each of the
\* fields of PythonOrderResponse, or text that is no JSON.
Bodies ==
    [json : {TRUE}, success : {Some(TRUE), Some(FALSE), None},
     order_id : {Some("abc"), None}, error : {Some("bad price"), None}]
    \cup {NoBody}

\* serde with #[serde(default)] on every field: any JSON object is accepted
DeserializesLenient(body) == body.json

\* serde: `success: bool` must be there; an absent Option field is None.
Deserializes(body) == body.json /\ body.success # None

\* response.error.unwrap_or_else(|| "Unknown error".to_string())
ErrorMessage(body) == IF body.error = None THEN "Unknown error" ELSE body.error[1]

\* The request is sent again after a failure.
SendRetried(t) ==
    /\ Goto(t, "http_send")
    /\ UNCHANGED result

\* .send().await? when the request timed out or failed in transport
SendFailed(t) == SubmitReturn(t, Err("Transport"))

\* self.http.post(&url).json(&python_order).timeout(10 s).send().await?
http_send(t) ==
    /\ pc[t] = "http_send"
    /\ Did(t, "POST")
    /\ \/ /\ SendFailed(t)
          /\ UNCHANGED response
       \/ \E s \in Statuses :
             /\ response' = [response EXCEPT ![t].status = s]
             /\ Goto(t, IF is_success(s) THEN "read_json" ELSE "read_text")
             /\ UNCHANGED result
    /\ UNCHANGED <<config, chain, orphans, ready_vars, op, order, request>>

\* let error_body = resp.text().await?; return Err(anyhow!(.. status, error_body))
read_text(t) ==
    /\ pc[t] = "read_text"
    /\ Did(t, "text")
    /\ \/ /\ SubmitReturn(t, Err("Transport"))
          /\ UNCHANGED response
       \/ \E b \in Bodies :
             /\ response' = [response EXCEPT ![t].body = b]
             /\ SubmitReturn(t, ErrOf("BackendRejected", <<response[t].status, b>>))
    /\ UNCHANGED <<config, chain, orphans, ready_vars, op, order, request>>

\* What submit_order returns once the body b is deserialized.
Outcome(b) ==
    IF b.success = Some(TRUE)
    THEN Ok
    ELSE ErrOf("OrderRejected", <<ErrorMessage(b)>>)

\* let response: PythonOrderResponse = resp.json().await?; and what follows
read_json(t) ==
    /\ pc[t] = "read_json"
    /\ \/ /\ SubmitReturn(t, Err("Transport"))
          /\ Did(t, "json")
          /\ UNCHANGED response
       \/ \E b \in Bodies :
             /\ response' = [response EXCEPT ![t].body = b]
             /\ IF ~Deserializes(b)
                THEN /\ SubmitReturn(t, Err("Malformed"))
                     /\ Did(t, "json")
                ELSE /\ SubmitReturn(t, Outcome(b))
                     /\ trace' = [trace EXCEPT ![t] =
                           IF log_info /\ b.success = Some(TRUE) /\ b.order_id # None
                           THEN @ \o <<"json", "Order placed! ID: " \o b.order_id[1]>>
                           ELSE Append(@, "json")]
    /\ UNCHANGED <<config, chain, orphans, ready_vars, op, order, request>>

\* -------------------------------------------------------- specifications

ReadyStep(t) ==
    \/ \E r \in Requireds : ensure_trading_ready(t, r)
    \/ ensure_balance(t)
    \/ proxy_is_contract(t)
    \/ ensure_safe_checks(t)
    \/ safe_is_approved(t)
    \/ ensure_usdc_allowance(t)
    \/ approve_send(t)
    \/ approve_wait(t)
    \/ ensure_erc1155_approval(t)
    \/ set_approval_send(t)
    \/ set_approval_wait(t)
    \/ call_returns(t)

ChainStep ==
    \/ \E t \in Tasks : TxMined(t)
    \/ \E t \in Tasks : TxFailed(t)
    \/ \E k \in TxKinds : OrphanMined(k)
    \/ \E b \in Balances : Transfer(b)
    \/ \E a \in Allowances : OwnerApproves(a)
    \/ \E b \in BOOLEAN : OwnerSetsApproval(b)

Next ==
    \/ \E t \in Solo : ReadyStep(t)
    \/ ChainStep

Spec == Init /\ [][Next]_vars

SubmitStep(t) ==
    \/ \E o \in Orders : submit_order(t, o)
    \/ http_send(t)
    \/ read_text(t)
    \/ read_json(t)
    \/ call_returns(t)

NextSubmit == \E t \in Solo : SubmitStep(t)

SpecSubmit == Init /\ [][NextSubmit]_vars

\* The orders submitted between calls of ensure_trading_ready: the BUY and
\* the SELL of 150000 for 100000, and of 2^128 for 100000.
BothOrders ==
    {o \in Orders : /\ o.maker_amount \in {U256_from(150000), TwoTo128}
                    /\ o.taker_amount = U256_from(100000)}

\* Both public operations, called in any order by one task.
NextBoth ==
    \/ \E t \in Solo : ReadyStep(t)
    \/ \E t \in Solo : \E o \in BothOrders : submit_order(t, o)
    \/ \E t \in Solo : http_send(t)
    \/ \E t \in Solo : read_text(t)
    \/ \E t \in Solo : read_json(t)
    \/ ChainStep

SpecBoth == Init /\ [][NextBoth]_vars

\* Calls of ensure_trading_ready made concurrently on clones of the client:
\* &self methods of a Clone type, with no lock in between.
NextConcurrent ==
    \/ \E t \in Tasks : ReadyStep(t)
    \/ \E t \in Tasks : TxMined(t)
    \/ \E t \in Tasks : TxFailed(t)
    \/ \E k \in TxKinds : OrphanMined(k)

\* read_only is not read by ensure_trading_ready.
InitConcurrent == Init /\ read_only = FALSE

SpecConcurrent == InitConcurrent /\ [][NextConcurrent]_vars

\* ------------------------------------------------------------ the claims

\* How often the current call of t has made request ev.
Count(t, ev) == Cardinality({i \in 1..Len(trace[t]) : trace[t][i] = ev})

Ensuring(t) == op[t] = "ensure_trading_ready"
Ended(t) == pc[t] \in {"done", "panicked"}

\* The value is a number below n.
Below(v, n) == v.hi = 0 /\ v.lo < n

\* C1: once a call of ensure_trading_ready has read the balance, a balance
\* below the required amount ends the call with the insufficient-balance
\* error, the balance read being the only request the call has made (no
\* bytecode, allowance or approval read, no transaction); a balance of the
\* required amount or more never gives that error, and the call never
\* returns with the balance read as its last request.
C1_BalanceCheck ==
    \A t \in Tasks :
        (Ensuring(t) /\ locals[t].bal # NoValue) =>
            IF Below(locals[t].bal, required[t])
            THEN /\ pc[t] = "done"
                 /\ result[t] = Err("InsufficientBalance")
                 /\ trace[t] = <<"balance_of">>
                 /\ tx[t] = "none"
            ELSE /\ result[t] # Err("InsufficientBalance")
                 /\ ~(pc[t] = "done" /\ trace[t] = <<"balance_of">>)

\* A balance one unit short of the required amount was refused.
C1_Witness ==
    \E t \in Tasks :
        /\ Ensuring(t)
        /\ required[t] = 1000000
        /\ locals[t].bal = U256_from(999999)
        /\ result[t] = Err("InsufficientBalance")

\* C2: while the proxy wallet is the address that holds bytecode, no call of
\* ensure_trading_ready sends approve or set_approval_for_all, and no
\* transaction of the signer is pending, whatever the allowance, the approval
\* flag and the outcome of the call.
C2_SafeNeverWrites ==
    proxy_wallet = "safe" =>
        /\ \A t \in Tasks :
              /\ Count(t, "approve") = 0
              /\ Count(t, "set_approval_for_all") = 0
              /\ tx[t] = "none"
        /\ \A k \in TxKinds : orphans[k] = 0

\* A call for a contract wallet whose allowance is below the threshold has
\* ended, with the allowance-missing error.
C2_Witness ==
    \E t \in Tasks :
        /\ proxy_wallet = "safe"
        /\ Ensuring(t)
        /\ pc[t] = "done"
        /\ locals[t].allowance = U256_from(999999)
        /\ result[t] = Err("AllowanceMissing")

\* What the call of t read, or would have read, of the chain.
SeenAllowance(t) ==
    IF locals[t].allowance # NoValue THEN locals[t].allowance ELSE allowance[proxy_wallet]
SeenApproved(t) ==
    IF Count(t, "is_approved_for_all") > 0
    THEN locals[t].approved
    ELSE isApprovedForAll[proxy_wallet]

\* The three conditions of readiness, as the call of t saw them.
ReadyAsSeen(t) ==
    /\ ~Below(locals[t].bal, required[t])
    /\ ~Below(SeenAllowance(t), MIN_ALLOWANCE)
    /\ SeenApproved(t)

\* What C3 says of the call of t, once it has ended.
SafeOutcomeAsClaimed(t) ==
    /\ (result[t] = Ok) <=> ReadyAsSeen(t)
    /\ (~Below(locals[t].bal, required[t]) /\ Below(SeenAllowance(t), MIN_ALLOWANCE))
          => (result[t] = Err("AllowanceMissing") /\ Count(t, "is_approved_for_all") = 0)
    /\ (ReadyAsSeen(t) \/ SeenApproved(t) \/ Below(locals[t].bal, required[t])
          \/ Below(SeenAllowance(t), MIN_ALLOWANCE))
          \/ result[t] = Err("ApprovalMissing")

\* The call of t is one for a contract wallet in which no request failed.
SafeCall(t) ==
    /\ Ensuring(t)
    /\ proxy_wallet = "safe"
    /\ locals[t].bal # NoValue
    /\ result[t] # Err("Rpc")

\* C3: a call for a contract wallet that ended without a failed request
\* succeeded exactly if balance >= required, allowance >= 1_000_000 and the
\* approval flag is set; with the balance sufficient it failed with the
\* allowance-missing error if the allowance is below the threshold (the flag
\* unread) and with the approval-missing error if only the flag is missing.
C3_SafeOutcome ==
    \A t \in Tasks : (SafeCall(t) /\ Ended(t)) => SafeOutcomeAsClaimed(t)

\* The same of the calls that returned: what holds of C3 once the abort in
\* ensure_balance is set aside.
C3_SafeOutcomeOfReturns ==
    \A t \in Tasks : (SafeCall(t) /\ pc[t] = "done") => SafeOutcomeAsClaimed(t)

\* C4: a call for a plain account sends approve at most once and
\* set_approval_for_all at most once, and each only after its own read found
\* the allowance below 1_000_000, respectively the approval flag unset.
C4_AtMostOneEach ==
    \A t \in Tasks :
        (Ensuring(t) /\ proxy_wallet # "safe") =>
            /\ Count(t, "approve") <= 1
            /\ Count(t, "set_approval_for_all") <= 1
            /\ (Count(t, "approve") = 1) =>
                  (locals[t].allowance # NoValue
                     /\ Below(locals[t].allowance, MIN_ALLOWANCE))
            /\ (Count(t, "set_approval_for_all") = 1) =>
                  (Count(t, "is_approved_for_all") = 1 /\ ~locals[t].approved)

\* A call has sent both transactions, each after finding its condition missing.
C4_Witness ==
    \E t \in Tasks :
        /\ Ensuring(t)
        /\ proxy_wallet = "signer"
        /\ Count(t, "approve") = 1
        /\ Count(t, "set_approval_for_all") = 1
        /\ pc[t] = "done"
        /\ result[t] = Ok

\* The current call of t has sent a transaction.
SentAny(t) == Count(t, "approve") + Count(t, "set_approval_for_all") > 0

\* C5: for a plain account, a call of ensure_trading_ready that follows a
\* call which returned success after its transactions were confirmed, with
\* the same required amount and the chain unchanged in between, sends no
\* transaction and, unless a request of its own fails, returns success.
C5_Idempotent ==
    \A t \in Tasks :
        (Ensuring(t) /\ reinvoke[t] /\ proxy_wallet # "safe") =>
            /\ ~SentAny(t)
            /\ tx[t] = "none"
            /\ (Ended(t) /\ result[t] # Err("Rpc")) => (result[t] = Ok)

\* The same where the proxy wallet is the signer's own account.
C5_IdempotentForSigner ==
    \A t \in Tasks :
        (Ensuring(t) /\ reinvoke[t] /\ proxy_wallet = Sender) =>
            /\ ~SentAny(t)
            /\ tx[t] = "none"
            /\ (Ended(t) /\ result[t] # Err("Rpc")) => (result[t] = Ok)

C5_ReinvokedForSigner ==
    \E t \in Tasks :
        Ensuring(t) /\ reinvoke[t] /\ proxy_wallet = Sender /\ pc[t] = "done"
            /\ result[t] = Ok


Submitting(t) == op[t] = "submit_order"

\* The order's divisor is zero: a BUY with taker_amount = 0, a SELL with
\* maker_amount = 0.
Degenerate(o) ==
    \/ o.side = 0 /\ o.taker_amount = U256_from(0)
    \/ o.side # 0 /\ o.maker_amount = U256_from(0)

\* C6: a call of submit_order with a BUY order of taker_amount = 0 or a SELL
\* order of maker_amount = 0 builds no request payload, sends no HTTP
\* request and ends with the degenerate-order error.
C6_DegenerateRejected ==
    \A t \in Tasks :
        (Submitting(t) /\ Degenerate(order[t])) =>
            /\ request[t] = NoRequest
            /\ Count(t, "POST") = 0
            /\ Ended(t) => (result[t] = Err("DegenerateOrder"))

\* Reading a decimal string back.
CharAt(s, i) == SubSeq(s, i, i)
IsDigits(s) == \A i \in 1..Len(s) : \E d \in 0..9 : Digit[d + 1] = CharAt(s, i)
DigitOf(c) == CHOOSE d \in 0..9 : Digit[d + 1] = c

RECURSIVE Number(_)
Number(s) ==
    IF s = ""
    THEN 0
    ELSE Number(SubSeq(s, 1, Len(s) - 1)) * 10 + DigitOf(CharAt(s, Len(s)))

\* s is digits, a point and exactly six digits.
SixPlaces(s) ==
    /\ Len(s) >= 8
    /\ CharAt(s, Len(s) - 6) = "."
    /\ IsDigits(SubSeq(s, 1, Len(s) - 7))
    /\ IsDigits(SubSeq(s, Len(s) - 5, Len(s)))
WholeOf(s) == Number(SubSeq(s, 1, Len(s) - 7))
MicroOf(s) == Number(SubSeq(s, Len(s) - 5, Len(s)))

Abs(x) == IF x < 0 THEN -x ELSE x
RECURSIVE Power10(_)
Power10(k) == IF k = 0 THEN 1 ELSE 10 * Power10(k - 1)

RECURSIVE HalfUnit(_, _, _, _)
\* With r = (n - w * d) * 10^k for the whole part and first k places w of
\* a number of micro millionths: the number lies within half of 10^-6 of n / d.
HalfUnit(r, d, micro, k) ==
    IF k = 6
    THEN 2 * Abs(r) <= d
    ELSE /\ Abs(r) < d
         /\ HalfUnit(10 * r - ((micro \div Power10(5 - k)) % 10) * d, d, micro, k + 1)

\* The string s is n / d to the nearest 10^-6, in six decimal places.
IsQuotient(s, n, d) ==
    /\ SixPlaces(s)
    /\ Abs(n - WholeOf(s) * d) <= d
    /\ HalfUnit(n - WholeOf(s) * d, d, MicroOf(s), 0)

\* The string s is n / 10^6 exactly, in six decimal places.
IsMillionths(s, n) ==
    /\ SixPlaces(s)
    /\ WholeOf(s) * 1000000 + MicroOf(s) = n

\* C7: the request built for a BUY order holds price = maker_amount /
\* taker_amount and size = taker_amount / 10^6, the one for a SELL order
\* price = taker_amount / maker_amount and size = maker_amount / 10^6, the
\* divisor not being zero: each in six decimal places, the price to the nearest
\* 10^-6.  BUY 150000/100000 gives "1.500000" and "0.100000", SELL
\* 100000/120000 gives "1.200000" and "0.100000".
C7_Translation ==
    \A t \in Tasks :
        (Submitting(t) /\ request[t] # NoRequest /\ ~Degenerate(order[t])) =>
            LET maker == order[t].maker_amount.lo
                taker == order[t].taker_amount.lo
                buy == order[t].side = 0
            IN  /\ request[t].side = (IF buy THEN "BUY" ELSE "SELL")
                /\ buy => /\ IsQuotient(request[t].price, maker, taker)
                          /\ IsMillionths(request[t].size, taker)
                /\ ~buy => /\ IsQuotient(request[t].price, taker, maker)
                           /\ IsMillionths(request[t].size, maker)
                /\ (buy /\ maker = 150000 /\ taker = 100000) =>
                      (request[t].price = "1.500000" /\ request[t].size = "0.100000")
                /\ (~buy /\ maker = 100000 /\ taker = 120000) =>
                      (request[t].price = "1.200000" /\ request[t].size = "0.100000")

\* The request of the SELL example has been sent.
C7_Witness ==
    \E t \in Tasks :
        /\ Submitting(t)
        /\ order[t].side = 1
        /\ order[t].maker_amount = U256_from(100000)
        /\ order[t].taker_amount = U256_from(120000)
        /\ request[t].price = "1.200000"
        /\ Count(t, "POST") = 1

\* C8: with read_only set, a call of submit_order sends no HTTP request and
\* ends by returning success, whatever the order.
C8_SimulateSucceeds ==
    \A t \in Tasks :
        (Submitting(t) /\ read_only) =>
            /\ Count(t, "POST") = 0
            /\ pc[t] \in {"done", "panicked"}
            /\ result[t] = Ok

\* The same of the calls that returned: what holds of C8 once the abort in
\* the logging of the amounts is set aside.
C8_SimulateNeverPosts ==
    \A t \in Tasks :
        (Submitting(t) /\ read_only) =>
            /\ Count(t, "POST") = 0
            /\ pc[t] = "done" => (result[t] = Ok)

\* C9: in live mode, once the call has the response: with a status outside
\* 200..299 the body is never read as JSON and the call ends with an error,
\* which, the body being read, is the backend-rejected error made of that
\* status and that body; with a status in 200..299 and a body whose success
\* flag is false the call ends with the order-rejected error made of the
\* body's error message, or of "Unknown error" where the body has none.
C9_Rejections ==
    \A t \in Tasks :
        (Submitting(t) /\ response[t].status # 0) =>
            LET status == response[t].status
                body == response[t].body
                in2xx == 200 <= status /\ status <= 299
            IN  /\ ~in2xx =>
                      /\ Count(t, "json") = 0
                      /\ pc[t] = "done" =>
                            \/ result[t] = ErrOf("BackendRejected", <<status, body>>)
                            \/ result[t] = Err("Transport") /\ body = NoBody
                /\ (in2xx /\ body.json /\ body.success = <<FALSE>>) =>
                      /\ Count(t, "text") = 0
                      /\ pc[t] = "done"
                      /\ body.error = <<>> =>
                            (result[t] = ErrOf("OrderRejected", <<"Unknown error">>))
                      /\ body.error # <<>> =>
                            (result[t] = ErrOf("OrderRejected", <<body.error[1]>>))

\* A response of status 500 made the call fail with that status and body,
\* a JSON body that says success = true.
C9_Witness ==
    \E t \in Tasks :
        /\ Submitting(t)
        /\ response[t].status = 500
        /\ response[t].body.success = <<TRUE>>
        /\ result[t] = ErrOf("BackendRejected", <<500, response[t].body>>)

\* C10: in live mode, a response with a status in 200..299 and a body with
\* success = true makes the call return success, and what it returns is the
\* body's order_id where the body has one.
C10_ReturnsOrderId ==
    \A t \in Tasks :
        ( /\ Submitting(t)
          /\ 200 <= response[t].status /\ response[t].status <= 299
          /\ response[t].body.json
          /\ response[t].body.success = <<TRUE>> ) =>
            /\ result[t].tag = "Ok"
            /\ response[t].body.order_id # <<>> =>
                  (result[t].value = response[t].body.order_id[1])

\* The same with the identifier logged, not returned: what the code does.
C10_ReturnsUnit ==
    \A t \in Tasks :
        ( /\ Submitting(t)
          /\ 200 <= response[t].status /\ response[t].status <= 299
          /\ response[t].body.json
          /\ response[t].body.success = <<TRUE>> ) =>
            /\ result[t] = Ok
            /\ (log_info /\ response[t].body.order_id # <<>>) =>
                  (Count(t, "Order placed! ID: " \o response[t].body.order_id[1]) = 1)

\* C11: in live mode, a response with a status in 200..299 whose JSON body
\* has no success flag makes the call end with the malformed-response
\* error: neither success nor the order-rejected error.
C11_MalformedResponse ==
    \A t \in Tasks :
        ( /\ Submitting(t)
          /\ 200 <= response[t].status /\ response[t].status <= 299
          /\ response[t].body.json
          /\ response[t].body.success = None ) =>
            (pc[t] = "done" /\ result[t] = Err("Malformed"))

\* A body with an order_id and an error but no success flag was refused.
C11_Witness ==
    \E t \in Tasks :
        /\ Submitting(t)
        /\ response[t].status = 200
        /\ response[t].body.json
        /\ response[t].body.success = None
        /\ response[t].body.order_id = Some("abc")
        /\ response[t].body.error = Some("bad price")
        /\ result[t] = Err("Malformed")

\* C12: a call of submit_order sends at most one POST, and a call that
\* returned an error (time-out, transport failure, rejection) sent exactly
\* one.
C12_NoRetry ==
    \A t \in Tasks :
        Submitting(t) =>
            /\ Count(t, "POST") <= 1
            /\ (Ended(t) /\ result[t].tag = "Err") => (Count(t, "POST") = 1)

\* The request failed in transport and the call returned the error at once.
C12_Witness ==
    \E t \in Tasks :
        /\ Submitting(t)
        /\ pc[t] = "done"
        /\ result[t] = Err("Transport")
        /\ trace[t] = <<"POST">>
\* C13: while calls of ensure_trading_ready run concurrently for a plain
\* account, no two transactions of the signer are in flight at the same
\* time, and no two calls each have their own confirmed transaction of the
\* same kind for the one missing condition.
C13_WritesSerialized ==
    \A t, u \in Tasks :
        (t # u /\ proxy_wallet # "safe" /\ Ensuring(t) /\ Ensuring(u)) =>
            /\ ~(tx[t] = "pending" /\ tx[u] = "pending")
            /\ ~(tx[t] = "success" /\ tx[u] = "success"
                  /\ KindAwaited(t) = KindAwaited(u))
\* C14: a call of ensure_trading_ready that returned an error has left the
\* chain's allowances and approvals as they were before the call: no
\* transaction of the call changed them.
C14_AllOrNothing ==
    \A t \in Tasks :
        (Ensuring(t) /\ pc[t] = "done" /\ result[t].tag = "Err") => ~effect[t]
\* The place of a request in the order of the steps of ensure_trading_ready.
Rank(ev) ==
    CASE ev = "balance_of" -> 1
      [] ev = "get_code" -> 2
      [] ev = "allowance" -> 3
      [] ev = "approve" -> 4
      [] ev \in {"approve:success", "approve:reverted", "approve:dropped"} -> 5
      [] ev = "is_approved_for_all" -> 6
      [] ev = "set_approval_for_all" -> 7
      [] OTHER -> 8

\* The steps that may follow the step of rank r.
Following(r) ==
    CASE r = 1 -> {2}
      [] r = 2 -> {3}
      [] r = 3 -> {4, 6}
      [] r = 4 -> {5}
      [] r = 5 -> {6}
      [] r = 6 -> {7}
      [] r = 7 -> {8}
      [] OTHER -> {}

\* The requests of the call of t came in the fixed order.
InFixedOrder(t) ==
    /\ trace[t] # <<>> => Rank(trace[t][1]) = 1
    /\ \A i \in 1..(Len(trace[t]) - 1) :
          Rank(trace[t][i + 1]) \in Following(Rank(trace[t][i]))

\* A transaction the call of t awaited left the mempool unmined.
Unconfirmed(t) ==
    Count(t, "approve:dropped") + Count(t, "set_approval_for_all:dropped") > 0

\* C15: the requests of a call of ensure_trading_ready come in the order
\* balance, bytecode, allowance, approve and its confirmation, approval flag,
\* set_approval_for_all and its confirmation; the flag is not read and
\* set_approval_for_all is not sent unless the approve of the call is
\* confirmed, and the call returns success only with every transaction it
\* sent confirmed.
C15_OrderedAndConfirmed ==
    \A t \in Tasks :
        Ensuring(t) =>
            /\ InFixedOrder(t)
            /\ (Count(t, "is_approved_for_all") > 0) => (Count(t, "approve:dropped") = 0)
            /\ (pc[t] = "done" /\ result[t] = Ok) => ~Unconfirmed(t)

\* The order alone: what holds of C15 whether the transactions are
\* confirmed or not.
C15_FixedOrder == \A t \in Tasks : Ensuring(t) => InFixedOrder(t)
\* The receipts of transactions that were mined and reverted.
Reverted == {"approve:reverted", "set_approval_for_all:reverted"}

\* C16: a failed read or send ends the call of ensure_trading_ready with an
\* error at once, and so does a transaction that reverted: its receipt is
\* the last thing the call has seen, the call has returned an error, and
\* nothing is sent or read after it.
C16_FailuresPropagate ==
    \A t \in Tasks :
        Ensuring(t) =>
            /\ (result[t] = Err("Rpc")) => (pc[t] = "done" /\ tx[t] = "none")
            /\ \A i \in 1..Len(trace[t]) :
                  (trace[t][i] \in Reverted) =>
                      /\ i = Len(trace[t])
                      /\ pc[t] = "done"
                      /\ result[t].tag = "Err"

\* The same of failed reads and sends alone: what holds of C16 once the
\* receipts' status is set aside.
C16_ReadAndSendFailuresPropagate ==
    \A t \in Tasks :
        (Ensuring(t) /\ result[t] = Err("Rpc")) => (pc[t] = "done" /\ tx[t] = "none")
\* The requests ensure_trading_ready makes of the chain.
ChainRequests ==
    {"balance_of", "get_code", "allowance", "is_approved_for_all", "approve",
     "set_approval_for_all"}

\* What a call of submit_order can end with, given the client's flags, the
\* order and the executor's response, and nothing else.
SubmitOutcomes(o, resp) ==
    IF read_only
    THEN IF log_info /\ AmountsPanic(o) THEN {Panic} ELSE {Ok}
    ELSE IF AmountsPanic(o) THEN {Panic}
    ELSE IF resp.status = 0 THEN {Err("Transport")}
    ELSE IF ~(200 <= resp.status /\ resp.status <= 299)
    THEN {Err("Transport"), ErrOf("BackendRejected", <<resp.status, resp.body>>)}
    ELSE IF resp.body.json /\ resp.body.success # <<>>
    THEN {IF resp.body.success = <<TRUE>>
          THEN Ok
          ELSE ErrOf("OrderRejected",
                     <<IF resp.body.error = <<>> THEN "Unknown error"
                       ELSE resp.body.error[1]>>)}
    ELSE {Err("Transport"), Err("Malformed")}

\* C17: a call of submit_order, in either mode and whatever calls of
\* ensure_trading_ready came before it, makes no request of the chain, sends
\* no transaction, holds nothing of a call of ensure_trading_ready, and ends
\* with a result that the flags, the order and the response determine.
C17_IndependentOfReadiness ==
    \A t \in Tasks :
        Submitting(t) =>
            /\ \A i \in 1..Len(trace[t]) : trace[t][i] \notin ChainRequests
            /\ tx[t] = "none"
            /\ required[t] = 0 /\ locals[t] = NoLocals
            /\ Ended(t) => (result[t] \in SubmitOutcomes(order[t], response[t]))

\* A live order was placed with a balance that no call of
\* ensure_trading_ready accepts.
C17_PlacedUnfunded ==
    \E t \in Tasks :
        /\ Submitting(t)
        /\ ~read_only
        /\ balanceOf = U256_from(999999)
        /\ pc[t] = "done"
        /\ result[t] = Ok

\* An order was rejected by the executor after a call of
\* ensure_trading_ready had remediated and succeeded.
C17_AfterReadiness ==
    \E t \in Tasks :
        /\ Submitting(t)
        /\ prev[t] = 1000000
        /\ pc[t] = "done"
        /\ result[t].tag = "Err"
\* C18: when a call of ensure_trading_ready for a plain account has returned
\* success, nobody else having changed the chain since the call began, the
\* proxy wallet's allowance to the exchange is at least 1_000_000 and its
\* approval flag is set on chain, whether the proxy wallet is the signer's
\* account or another plain account.
C18_ReadyOnSuccess ==
    \A t \in Tasks :
        ( /\ Ensuring(t)
          /\ proxy_wallet # "safe"
          /\ pc[t] = "done"
          /\ result[t] = Ok
          /\ undisturbed[t] ) =>
            /\ ~Below(allowance[proxy_wallet], MIN_ALLOWANCE)
            /\ isApprovedForAll[proxy_wallet]

\* The same where the proxy wallet is the signer's account and every
\* transaction of the call was mined with success.
C18_ReadyOnSuccessForSigner ==
    \A t \in Tasks :
        ( /\ Ensuring(t)
          /\ proxy_wallet = Sender
          /\ pc[t] = "done"
          /\ result[t] = Ok
          /\ undisturbed[t]
          /\ \A i \in 1..Len(locals[t].receipts) : locals[t].receipts[i] = "success" ) =>
            /\ ~Below(allowance[proxy_wallet], MIN_ALLOWANCE)
            /\ isApprovedForAll[proxy_wallet]
\* C19: whatever 256-bit values the balance and the order's amounts hold,
\* no call of ensure_trading_ready or submit_order aborts: each ends by
\* returning success or an error.
C19_NarrowingNeverAborts ==
    \A t \in Tasks :
        /\ pc[t] # "panicked"
        /\ pc[t] = "done" => (result[t].tag \in {"Ok", "Err"})

====
